---- MODULE Spec2Model ----
(***************************************************************************)
(* Model of src/src/lib.rs: the builder `Config` and `Config::build`,      *)
(* which runs `cmake` twice (generate, then build+install).                *)
(*                                                                         *)
(* Strings (String, OsString, PathBuf) are sequences of symbols; a symbol  *)
(* is written as a TLA+ string.  Concatenation is \o, `contains` is a      *)
(* search for a contiguous subsequence.  Option<T> is a sequence of length *)
(* 0 (None) or 1 (Some).                                                   *)
(***************************************************************************)
EXTENDS Integers, Sequences, FiniteSets, TLC

(* ---------------------------- bounds ----------------------------------- *)
\* number of option (setter) calls made on a Config before build
MaxCalls == 3
\* number of times build is run on the same Config
MaxRuns == 2

(* ---------------------------- strings ---------------------------------- *)
None == <<>>
Some(x) == <<x>>

\* str::contains
Contains(s, sub) ==
  \E i \in 0..(Len(s) - Len(sub)) : SubSeq(s, i + 1, i + Len(sub)) = sub

\* concatenation of a sequence of strings
RECURSIVE Concat(_)
Concat(ss) == IF ss = <<>> THEN <<>> ELSE Head(ss) \o Concat(Tail(ss))

\* Path::join: an absolute argument replaces the receiver
PathJoin(p, q) ==
  IF q # <<>> /\ q[1] = "/" THEN q
  ELSE IF p # <<>> /\ p[Len(p)] = "/" THEN p \o q
  ELSE p \o <<"/">> \o q

\* env::var_os / env::var on an environment e (a function from names to values)
var_os(e, name) == IF name \in DOMAIN e THEN Some(e[name]) ELSE None

\* env::split_paths (Unix): split on every ":"; the empty string is one empty path
RECURSIVE split_paths(_)
split_paths(s) ==
  IF \A i \in 1..Len(s) : s[i] # ":" THEN <<s>>
  ELSE LET i == CHOOSE j \in 1..Len(s) :
                  s[j] = ":" /\ \A k \in 1..(j - 1) : s[k] # ":"
       IN <<SubSeq(s, 1, i - 1)>> \o split_paths(SubSeq(s, i + 1, Len(s)))

\* env::join_paths (Unix): Err when a path contains ":", else joined with ":"
RECURSIVE JoinWith(_, _)
JoinWith(ps, sep) ==
  IF ps = <<>> THEN <<>>
  ELSE IF Len(ps) = 1 THEN ps[1]
  ELSE ps[1] \o sep \o JoinWith(Tail(ps), sep)

join_paths(ps) ==
  IF \E i \in 1..Len(ps) : Contains(ps[i], <<":">>) THEN None
  ELSE Some(JoinWith(ps, <<":">>))

(* ------------------------ ambient inputs ------------------------------- *)
LinuxTarget == <<"x86_64", "-", "unknown", "-", "linux", "-", "gnu">>
MingwTarget == <<"x86_64", "-", "pc", "-", "windows", "-", "gnu">>
Msvc64Target == <<"x86_64", "-", "pc", "-", "windows", "-", "msvc">>
Msvc32Target == <<"i686", "-", "pc", "-", "windows", "-", "msvc">>
ArmMsvcTarget == <<"aarch64", "-", "pc", "-", "windows", "-", "msvc">>
Targets == {LinuxTarget, MingwTarget, Msvc64Target, Msvc32Target, ArmMsvcTarget}

\* format!("{:?}", gcc::windows_registry::find(target, "cl.exe"))
ClNone == <<"None">>
ClVs12 == <<"Some(", "Microsoft Visual Studio ", "12.0", "/VC/bin/cl.exe", ")">>
ClVs14 == <<"Some(", "Microsoft Visual Studio ", "14.0", "/VC/bin/cl.exe", ")">>
ClStrings == {ClNone, ClVs12, ClVs14}

\* gcc::Config::new().get_compiler(): path() and args()
DefaultCompiler == [path |-> <<"cc">>, args |-> << <<"-O2">>, <<"-fPIC">> >>]

\* env::current_dir()
CurrentDir == <<"/", "work">>

OutDirA == <<"/", "tmp", "/", "out">>
OutDirB == <<"/", "tmp", "/", "alt">>

DepVar(name) == <<"DEP_", name, "_ROOT">>

\* an environment from a set of <<name, value>> pairs
EnvOf(pairs) ==
  [n \in {pr[1] : pr \in pairs} |-> (CHOOSE pr \in pairs : pr[1] = n)[2]]

OptPair(name, opt) == IF opt = None THEN {} ELSE {<<name, opt[1]>>}

MkEnv(t, o, p, deps, cpp) ==
  EnvOf(OptPair(<<"TARGET">>, t) \cup OptPair(<<"OUT_DIR">>, o)
        \cup OptPair(<<"PROFILE">>, p) \cup deps
        \cup OptPair(<<"CMAKE_PREFIX_PATH">>, cpp))

Opt(S) == {None} \cup {Some(x) : x \in S}

DefaultDeps == {<<DepVar("FOO"), <<"/", "a">> >>}
DefaultCpp == Some(<<"/", "c", ":", "/", "d">>)
RelPath == <<"libfoo">>
AbsPath == <<"/", "src", "libfoo">>

\* a starting point: the ambient state, the path given to new, and whether
\* <dst>/build exists already
World(t, o, p, deps, cpp, c, k, path, exists) ==
  [amb |-> [env |-> MkEnv(t, o, p, deps, cpp), cl |-> c, cc |-> k],
   path |-> path, fs |-> exists]

\* the starting point of the others: Linux, release, DEP_FOO_ROOT and
\* CMAKE_PREFIX_PATH set, <dst>/build missing
DefaultWorld ==
  World(Some(LinuxTarget), Some(OutDirA), Some(<<"release">>), DefaultDeps,
        DefaultCpp, ClNone, DefaultCompiler, RelPath, FALSE)

\* target triple (or none) x toolchain string
TargetWorlds ==
  { World(t, Some(OutDirA), Some(<<"debug">>), DefaultDeps, DefaultCpp,
          c, DefaultCompiler, RelPath, FALSE) :
      t \in Opt(Targets), c \in ClStrings }

\* target triple x ambient profile (or none)
ProfileWorlds ==
  { World(Some(t), Some(OutDirA), p, DefaultDeps, DefaultCpp,
          ClVs14, DefaultCompiler, RelPath, FALSE) :
      t \in {LinuxTarget, Msvc64Target},
      p \in Opt({<<"debug">>, <<"release">>, <<"bench">>}) }

\* dependency roots x global prefix path (or none)
DepWorlds ==
  { World(Some(LinuxTarget), Some(OutDirA), Some(<<"release">>), d, cpp,
          ClNone, DefaultCompiler, RelPath, FALSE) :
      d \in { {<<DepVar("foo"), <<"/", "b">> >>},
              {<<DepVar("FOO"), <<"/", "a">> >>, <<DepVar("foo"), <<"/", "b">> >>},
              {<<DepVar("FOO"), <<"/", "a">> >>, <<DepVar("bar"), <<"/", "x", ":", "y">> >>} },
      cpp \in {None, DefaultCpp} }

\* no output directory; a compiler without flags; an absolute project path;
\* <dst>/build there already
OtherWorlds ==
  { DefaultWorld,
    [DefaultWorld EXCEPT !.amb.env = MkEnv(Some(LinuxTarget), None,
                                           Some(<<"release">>), DefaultDeps, DefaultCpp)],
    [DefaultWorld EXCEPT !.amb.cc = [path |-> <<"cc">>, args |-> <<>>]],
    [DefaultWorld EXCEPT !.path = AbsPath],
    [DefaultWorld EXCEPT !.fs = TRUE] }

\* the starting points considered
Worlds == TargetWorlds \cup ProfileWorlds \cup DepWorlds \cup OtherWorlds

(* ---------------------------- Config ----------------------------------- *)
\* Config::new
new(path) ==
  [path |-> path, cflags |-> <<>>, defines |-> <<>>, deps |-> <<>>,
   profile |-> None, out_dir |-> None, target |-> None, build_args |-> <<>>]

\* cflag with the separator only between flags
cflag_between(c, flag) ==
  [c EXCEPT !.cflags = IF @ = <<>> THEN flag ELSE (@ \o <<" ">>) \o flag]

cflag(c, flag) == [c EXCEPT !.cflags = (@ \o <<" ">>) \o flag]

\* define that replaces an earlier pair of the same key
define_replacing(c, k, v) ==
  [c EXCEPT !.defines =
     Append(SelectSeq(@, LAMBDA d : d[1] # k), <<k, v>>)]

define(c, k, v) == [c EXCEPT !.defines = Append(@, <<k, v>>)]

register_dep(c, dep) == [c EXCEPT !.deps = Append(@, dep)]

target(c, t) == [c EXCEPT !.target = Some(t)]

out_dir(c, o) == [c EXCEPT !.out_dir = Some(o)]

profile(c, p) == [c EXCEPT !.profile = Some(p)]

build_arg(c, a) == [c EXCEPT !.build_args = Append(@, a)]

(* ------------------------- Config::build ------------------------------- *)
\* lines 169-171: explicit target, else $TARGET; None makes unwrap panic
resolve_target(c, e) ==
  IF c.target # None THEN c.target ELSE var_os(e, <<"TARGET">>)

\* lines 175-177: explicit out_dir, else $OUT_DIR; None makes unwrap panic
resolve_dst(c, e) ==
  IF c.out_dir # None THEN c.out_dir ELSE var_os(e, <<"OUT_DIR">>)

\* fs::create_dir on a directory that exists (or not): the possible results
create_dir(exists) == IF exists THEN {"AlreadyExists"} ELSE {"Ok", "Other"}

\* create_dir whose failures other than "already exists" are fatal
create_dir_fatal_other(r) == r = "Other"

\* create_dir whose every failure is fatal
create_dir_fatal_exists(r) == r # "Ok"

\* line 178: `let _ = fs::create_dir(..)` discards the result, whatever it is
create_dir_fatal(r) == FALSE

\* lines 182-186: roots of the registered dependencies that are set
RECURSIVE dep_roots(_, _)
dep_roots(deps, e) ==
  IF deps = <<>> THEN <<>>
  ELSE LET root == var_os(e, DepVar(Head(deps)))
       IN (IF root # None THEN <<root[1]>> ELSE <<>>) \o dep_roots(Tail(deps), e)

\* lines 181-190: the merged list of search paths
prefix_path_list(c, e) ==
  LET system_prefix ==
        IF var_os(e, <<"CMAKE_PREFIX_PATH">>) # None
        THEN var_os(e, <<"CMAKE_PREFIX_PATH">>)[1] ELSE <<>>
  IN dep_roots(c.deps, e) \o split_paths(system_prefix)

\* line 191: None makes unwrap panic
cmake_prefix_path(c, e) == join_paths(prefix_path_list(c, e))

\* visual_studio_generator that looks at the architecture first
visual_studio_generator_arch_first(t, candidate) ==
  IF ~Contains(t, <<"i686">>) /\ ~Contains(t, <<"x86_64">>)
  THEN [err |-> Some("unsupported msvc target"), val |-> <<>>]
  ELSE IF ~Contains(candidate, <<"12.0">>) /\ ~Contains(candidate, <<"14.0">>)
  THEN [err |-> Some("couldn't determine visual studio generator"), val |-> <<>>]
  ELSE LET base == IF Contains(candidate, <<"12.0">>)
                   THEN <<"Visual Studio 12 2013">>
                   ELSE <<"Visual Studio 14 2015">>
       IN IF Contains(t, <<"i686">>) THEN [err |-> None, val |-> base]
          ELSE [err |-> None, val |-> base \o <<" Win64">>]

\* lines 254-273
visual_studio_generator(t, candidate) ==
  IF ~Contains(candidate, <<"12.0">>) /\ ~Contains(candidate, <<"14.0">>)
  THEN [err |-> Some("couldn't determine visual studio generator"), val |-> <<>>]
  ELSE LET base == IF Contains(candidate, <<"12.0">>)
                   THEN <<"Visual Studio 12 2013">>
                   ELSE <<"Visual Studio 14 2015">>
       IN IF Contains(t, <<"i686">>) THEN [err |-> None, val |-> base]
          ELSE IF Contains(t, <<"x86_64">>)
               THEN [err |-> None, val |-> base \o <<" Win64">>]
               ELSE [err |-> Some("unsupported msvc target"), val |-> <<>>]

\* lines 197-206: the -G arguments
generator(t, candidate) ==
  IF Contains(t, <<"windows", "-", "gnu">>)
  THEN [err |-> None, args |-> << <<"-G">>, <<"MSYS Makefiles">> >>]
  ELSE IF Contains(t, <<"msvc">>)
       THEN LET g == visual_studio_generator(t, candidate)
            IN [err |-> g.err,
                args |-> IF g.err = None THEN << <<"-G">>, g.val >> ELSE <<>>]
       ELSE [err |-> None, args |-> <<>>]

\* resolve_profile that maps only "release" to Release
resolve_profile_release_only(c, e, msvc) ==
  IF c.profile # None THEN c.profile
  ELSE LET amb_profile == var_os(e, <<"PROFILE">>)
       IN IF amb_profile = None THEN None
          ELSE IF amb_profile[1] = <<"release">> THEN Some(<<"Release">>)
               ELSE IF msvc THEN Some(<<"Release">>) ELSE Some(<<"Debug">>)

\* resolve_profile that maps an explicit profile like an ambient one
resolve_profile_mapped(c, e, msvc) ==
  LET given == IF c.profile # None THEN c.profile ELSE var_os(e, <<"PROFILE">>)
  IN IF given = None THEN None
     ELSE IF given[1] \in {<<"bench">>, <<"release">>} THEN Some(<<"Release">>)
     ELSE IF c.profile # None THEN c.profile
     ELSE IF msvc THEN Some(<<"Release">>) ELSE Some(<<"Debug">>)

\* lines 207-214: None makes unwrap panic
resolve_profile(c, e, msvc) ==
  IF c.profile # None THEN c.profile
  ELSE LET amb_profile == var_os(e, <<"PROFILE">>)
       IN IF amb_profile = None THEN None
          ELSE IF amb_profile[1] \in {<<"bench">>, <<"release">>}
               THEN Some(<<"Release">>)
               ELSE IF msvc THEN Some(<<"Release">>) ELSE Some(<<"Debug">>)

\* lines 215-221
define_args(c) ==
  [i \in 1..Len(c.defines) |->
     ((<<"-D">> \o c.defines[i][1]) \o <<"=">>) \o c.defines[i][2]]

\* lines 222-223
dstflag(dst) == <<"-D", "CMAKE_INSTALL_PREFIX", "=">> \o dst

\* lines 226-231
cflagsflag(c, cc) ==
  (<<"-D", "CMAKE_C_FLAGS", "=">> \o c.cflags)
    \o Concat([i \in 1..Len(cc.args) |-> <<" ">> \o cc.args[i]])

\* lines 233-234
ccompiler(cc) == <<"-D", "CMAKE_C_COMPILER", "=">> \o cc.path

\* generate_args with the definitions of the define calls at the end
generate_args_defines_last(c, gargs, prof, dst, cc) ==
  ((<<PathJoin(CurrentDir, c.path)>> \o gargs)
    \o << <<"-D", "CMAKE_BUILD_TYPE", "=">> \o prof,
          <<"-D", "CMAKE_INSTALL_PREFIX", "=">> \o dst,
          (<<"-D", "CMAKE_C_FLAGS", "=">> \o c.cflags)
            \o Concat([i \in 1..Len(cc.args) |-> <<" ">> \o cc.args[i]]),
          <<"-D", "CMAKE_C_COMPILER", "=">> \o cc.path >>)
    \o [i \in 1..Len(c.defines) |->
          ((<<"-D">> \o c.defines[i][1]) \o <<"=">>) \o c.defines[i][2]]

\* lines 194-196, 205, 215-221, 236-240: the arguments in the order of the cmd.arg calls
generate_args(c, gargs, prof, dst, cc) ==
  ((<<PathJoin(CurrentDir, c.path)>> \o gargs) \o define_args(c))
    \o << <<"-D", "CMAKE_BUILD_TYPE", "=">> \o prof,
          dstflag(dst), cflagsflag(c, cc), ccompiler(cc) >>

\* lines 243-248
install_args(c, prof) ==
  << <<"--build">>, <<".">>, <<"--target">>, <<"install">>,
     <<"--config">>, prof, <<"--">> >> \o c.build_args

\* run that does not look at the exit status
run_any_exit(status) ==
  CASE status = "NotFound" -> Some("failed to execute command: is cmake not installed?")
    [] status = "OtherErr" -> Some("failed to execute command")
    [] OTHER -> None

\* lines 276-289: the panic message of run for the result of cmd.status(), or None
run(status) ==
  CASE status = "NotFound" -> Some("failed to execute command: is cmake not installed?")
    [] status = "OtherErr" -> Some("failed to execute command")
    [] status = "ExitFail" -> Some("command did not execute successfully")
    [] OTHER -> None

\* Command::status in a working directory that exists (or not): the possible results
status(cwd_exists) ==
  IF cwd_exists THEN {"NotFound", "OtherErr", "ExitFail", "ExitOk"}
  ELSE {"NotFound", "OtherErr"}

(* ---------------------------- inputs ----------------------------------- *)
Flags == {<<"-foo">>, <<"-bar">>}
DefineKeys == {<<"FOO">>}
DefineVals == {<<"BAR">>, <<"BAZ">>}
DepNames == {"foo", "bar"}
TargetOverrides == {Msvc32Target}
OutDirOverrides == {OutDirB}
ProfileOverrides == {<<"release">>, <<"MinSizeRel">>}
BuildArgs == {<<"-j4">>}

(* ----------------------------- state ----------------------------------- *)
VARIABLES
  cfg,        \* the Config
  amb,        \* ambient state: process environment, toolchain string, compiler
  fs,         \* whether <dst>/build exists
  pc,         \* "idle", "generate", "install", "done", "aborted"
  ncalls,     \* option calls made so far
  log,        \* the define, cflag and profile calls made, in call order
  mkdir,      \* result of fs::create_dir in the current run, if it was called
  gen,        \* the generate command handed to run in the current run
  genStatus,  \* result of its cmd.status()
  bld,        \* the build+install command handed to run in the current run
  bldStatus,  \* result of its cmd.status()
  emitted,    \* path of the cargo:root line printed by the current run
  returned,   \* path returned by the current run
  err,        \* panic message of the current run
  prev,       \* the commands of the previous run on this Config
  runs        \* completed runs of build

vars == <<cfg, amb, fs, pc, ncalls, log, mkdir, gen, genStatus, bld, bldStatus,
          emitted, returned, err, prev, runs>>

runVars == <<mkdir, gen, genStatus, bld, bldStatus, emitted, returned, err, prev, runs>>

InitIn(W) ==
  /\ \E w \in W :
       /\ cfg = new(w.path)
       /\ amb = w.amb
       /\ fs = w.fs
  /\ pc = "idle"
  /\ ncalls = 0
  /\ log = [define |-> <<>>, cflag |-> <<>>, profile |-> <<>>]
  /\ mkdir = None /\ gen = None /\ genStatus = None
  /\ bld = None /\ bldStatus = None
  /\ emitted = None /\ returned = None /\ err = None
  /\ prev = None /\ runs = 0

Init == InitIn(Worlds)

\* the starting points that vary the target triple and the toolchain string
InitTargets == InitIn(TargetWorlds \cup OtherWorlds)

\* the starting points that vary the ambient profile
InitProfiles == InitIn(ProfileWorlds \cup OtherWorlds)

(* --------------------------- option calls ------------------------------ *)
Setter(c) ==
  /\ pc = "idle"
  /\ ncalls < MaxCalls
  /\ cfg' = c
  /\ ncalls' = ncalls + 1
  /\ UNCHANGED <<amb, fs, pc, runVars>>

CallCflag ==
  \E f \in Flags :
    /\ Setter(cflag(cfg, f))
    /\ log' = [log EXCEPT !.cflag = Append(@, f)]

CallDefine ==
  \E k \in DefineKeys, v \in DefineVals :
    /\ Setter(define(cfg, k, v))
    /\ log' = [log EXCEPT !.define = Append(@, <<k, v>>)]

CallRegisterDep ==
  \E d \in DepNames : Setter(register_dep(cfg, d)) /\ UNCHANGED log

CallTarget ==
  \E t \in TargetOverrides : Setter(target(cfg, t)) /\ UNCHANGED log

CallOutDir ==
  \E o \in OutDirOverrides : Setter(out_dir(cfg, o)) /\ UNCHANGED log

CallProfile ==
  \E p \in ProfileOverrides :
    /\ Setter(profile(cfg, p))
    /\ log' = [log EXCEPT !.profile = Append(@, p)]

CallBuildArg ==
  \E a \in BuildArgs : Setter(build_arg(cfg, a)) /\ UNCHANGED log

(* ------------------------------ build ---------------------------------- *)
Abort(msg) ==
  /\ pc' = "aborted"
  /\ err' = Some(msg)

\* lines 168-240: from the call of build to the call of run on the generate command
BuildStart ==
  /\ pc \in {"idle", "done"}
  /\ runs < MaxRuns
  /\ prev' = IF pc = "done" THEN Some([gen |-> gen[1], bld |-> bld[1]]) ELSE None
  /\ genStatus' = None /\ bld' = None /\ bldStatus' = None
  /\ emitted' = None /\ returned' = None
  /\ UNCHANGED <<cfg, amb, ncalls, log, runs>>
  /\ LET t == resolve_target(cfg, amb.env)
         dst == resolve_dst(cfg, amb.env)
     IN IF t = None
        THEN Abort("TARGET") /\ gen' = None /\ mkdir' = None /\ UNCHANGED fs
        ELSE IF dst = None
        THEN Abort("OUT_DIR") /\ gen' = None /\ mkdir' = None /\ UNCHANGED fs
        ELSE \E r \in create_dir(fs) :
          /\ mkdir' = Some(r)
          /\ fs' = (fs \/ r = "Ok")
          /\ LET msvc == Contains(t[1], <<"msvc">>)
                 path == cmake_prefix_path(cfg, amb.env)
                 g == generator(t[1], amb.cl)
                 prof == resolve_profile(cfg, amb.env, msvc)
             IN IF create_dir_fatal(r) THEN Abort("create_dir") /\ gen' = None
                ELSE IF path = None THEN Abort("join_paths") /\ gen' = None
                ELSE IF g.err # None THEN Abort(g.err[1]) /\ gen' = None
                ELSE IF prof = None THEN Abort("PROFILE") /\ gen' = None
                ELSE /\ gen' = Some([args |-> generate_args(cfg, g.args, prof[1],
                                                            dst[1], amb.cc),
                                     cwd |-> PathJoin(dst[1], <<"build">>),
                                     env |-> Some(path[1]),
                                     prof |-> prof[1],
                                     dst |-> dst[1]])
                     /\ pc' = "generate"
                     /\ err' = None

\* lines 236-248: the generate command ends; on success run is called on the
\* build+install command
GenerateExit ==
  /\ pc = "generate"
  /\ \E s \in status(fs) :
       /\ genStatus' = Some(s)
       /\ IF run(s) # None
          THEN Abort(run(s)[1]) /\ bld' = None
          ELSE /\ bld' = Some([args |-> install_args(cfg, gen[1].prof),
                               cwd |-> PathJoin(gen[1].dst, <<"build">>),
                               env |-> None])
               /\ pc' = "install"
               /\ err' = None
  /\ UNCHANGED <<cfg, amb, fs, ncalls, log, mkdir, gen, bldStatus, emitted,
                 returned, prev, runs>>

\* lines 243-252: the build+install command ends; on success the install
\* directory is printed and returned
InstallExit ==
  /\ pc = "install"
  /\ \E s \in status(fs) :
       /\ bldStatus' = Some(s)
       /\ IF run(s) # None
          THEN Abort(run(s)[1]) /\ UNCHANGED <<emitted, returned, runs>>
          ELSE /\ emitted' = Some(gen[1].dst)
               /\ returned' = Some(gen[1].dst)
               /\ runs' = runs + 1
               /\ pc' = "done"
               /\ err' = None
  /\ UNCHANGED <<cfg, amb, fs, ncalls, log, mkdir, gen, genStatus, bld, prev>>

Next ==
  \/ CallCflag
  \/ CallDefine
  \/ CallRegisterDep
  \/ CallTarget
  \/ CallOutDir
  \/ CallProfile
  \/ CallBuildArg
  \/ BuildStart
  \/ GenerateExit
  \/ InstallExit

Spec == Init /\ [][Next]_vars

SpecTargets == InitTargets /\ [][Next]_vars

SpecProfiles == InitProfiles /\ [][Next]_vars

(* ------------------------ reading the commands ------------------------- *)
\* the argument is the definition -D<key>=...
HasKey(arg, key) ==
  LET p == (<<"-D">> \o key) \o <<"=">>
  IN Len(arg) >= Len(p) /\ SubSeq(arg, 1, Len(p)) = p

\* the values given to <key> by the arguments a
ValuesOf(a, key) ==
  {SubSeq(a[i], Len(key) + 3, Len(a[i])) : i \in {j \in 1..Len(a) : HasKey(a[j], key)}}

IsUserDefine(arg) == \E k \in DefineKeys : HasKey(arg, k)

\* number of arguments taken by the project path and the -G pair
Offset(a) == IF Len(a) >= 3 /\ a[2] = <<"-G">> THEN 3 ELSE 1

\* the value after --config in the build command
ConfigOf(a) ==
  {a[i + 1] : i \in {j \in 1..(Len(a) - 1) : a[j] = <<"--config">>}}

TheTarget == IF cfg.target # None THEN cfg.target ELSE var_os(amb.env, <<"TARGET">>)
TheOutDir == IF cfg.out_dir # None THEN cfg.out_dir ELSE var_os(amb.env, <<"OUT_DIR">>)
IsMsvc == TheTarget # None /\ Contains(TheTarget[1], <<"msvc">>)
IsMingw == TheTarget # None /\ Contains(TheTarget[1], <<"windows", "-", "gnu">>)
Ran == pc # "idle"
NoOutput == emitted = None /\ returned = None
VersionKnown == Contains(amb.cl, <<"12.0">>) \/ Contains(amb.cl, <<"14.0">>)
ArchKnown ==
  TheTarget # None
  /\ (Contains(TheTarget[1], <<"i686">>) \/ Contains(TheTarget[1], <<"x86_64">>))

(* ------------------------------- C1 ------------------------------------ *)
\* C1: the build+install command is started only after the generate command
\* exited with success; the install directory is printed and returned only
\* after both exited with success; a missing target or output directory, an
\* unresolvable MSVC generator, a tool that is not found and a non-zero exit
\* all end the run aborted, with no later step started and nothing printed or
\* returned.
C1_Sequential ==
  /\ bld # None => genStatus = Some("ExitOk")
  /\ ~NoOutput =>
       /\ genStatus = Some("ExitOk") /\ bldStatus = Some("ExitOk")
       /\ emitted = returned /\ emitted = TheOutDir
       /\ pc = "done"
  /\ (Ran /\ (TheTarget = None \/ TheOutDir = None)) =>
       pc = "aborted" /\ gen = None /\ bld = None /\ NoOutput
  /\ (Ran /\ IsMsvc /\ ~IsMingw /\ (~VersionKnown \/ ~ArchKnown)) =>
       pc = "aborted" /\ gen = None /\ bld = None /\ NoOutput
  /\ (genStatus # None /\ genStatus # Some("ExitOk")) =>
       pc = "aborted" /\ bld = None /\ NoOutput
  /\ (bldStatus # None /\ bldStatus # Some("ExitOk")) =>
       pc = "aborted" /\ NoOutput
  /\ pc = "aborted" => NoOutput /\ err # None

C1_Witness ==
  /\ pc = "aborted" /\ genStatus = Some("ExitOk") /\ bldStatus = Some("ExitFail")
  /\ runs = 1

(* ------------------------------- C2 ------------------------------------ *)
\* C2 as stated: project path, optional -G pair, build type, install prefix,
\* C flags, C compiler, and only then the definitions of the define calls.
C2_DefinesLast ==
  gen # None =>
    LET a == gen[1].args
        off == Offset(a)
    IN /\ Len(a) = off + 4 + Len(log.define)
       /\ HasKey(a[off + 1], <<"CMAKE_BUILD_TYPE">>)
       /\ HasKey(a[off + 2], <<"CMAKE_INSTALL_PREFIX">>)
       /\ HasKey(a[off + 3], <<"CMAKE_C_FLAGS">>)
       /\ HasKey(a[off + 4], <<"CMAKE_C_COMPILER">>)
       /\ \A i \in (off + 5)..Len(a) : IsUserDefine(a[i])

\* C2 amended: project path, optional -G pair, the definitions of the define
\* calls, and only then build type, install prefix, C flags, C compiler.
C2_DefinesFirst ==
  gen # None =>
    LET a == gen[1].args
        off == Offset(a)
        n == Len(log.define)
    IN /\ Len(a) = off + n + 4
       /\ a[1] = (IF cfg.path[1] = "/" THEN cfg.path
                  ELSE (CurrentDir \o <<"/">>) \o cfg.path)
       /\ (IsMingw \/ IsMsvc) <=> off = 3
       /\ \A i \in (off + 1)..(off + n) : IsUserDefine(a[i])
       /\ HasKey(a[off + n + 1], <<"CMAKE_BUILD_TYPE">>)
       /\ HasKey(a[off + n + 2], <<"CMAKE_INSTALL_PREFIX">>)
       /\ HasKey(a[off + n + 3], <<"CMAKE_C_FLAGS">>)
       /\ HasKey(a[off + n + 4], <<"CMAKE_C_COMPILER">>)

C2_Witness ==
  /\ gen # None /\ Len(log.define) = 2 /\ Offset(gen[1].args) = 3
  /\ IsUserDefine(gen[1].args[4])

(* ------------------------------- C3 ------------------------------------ *)
\* C3: the generate command holds exactly one -D<K>=<V> per define call, in
\* call order, duplicates kept, whatever other setters were called in between.
C3_DefinePerCall ==
  gen # None =>
    SelectSeq(gen[1].args, IsUserDefine)
      = [i \in 1..Len(log.define) |->
           ((<<"-D">> \o log.define[i][1]) \o <<"=">>) \o log.define[i][2]]

C3_Witness ==
  /\ gen # None
  /\ log.define = << <<(<<"FOO">>), (<<"BAZ">>)>>, <<(<<"FOO">>), (<<"BAZ">>)>> >>
  /\ ncalls > 2

(* ------------------------------- C4 ------------------------------------ *)
\* the build type the claim gives for the current configuration and ambient state
C4_Expected ==
  IF log.profile # <<>> THEN log.profile[Len(log.profile)]
  ELSE IF var_os(amb.env, <<"PROFILE">>) = None THEN <<"?">>
  ELSE IF amb.env[<<"PROFILE">>] = <<"bench">> \/ amb.env[<<"PROFILE">>] = <<"release">>
       THEN <<"Release">>
  ELSE IF IsMsvc THEN <<"Release">> ELSE <<"Debug">>

\* C4: without an explicit profile the build type is Release for ambient bench
\* or release, and otherwise Release on msvc and Debug elsewhere; the last
\* explicit profile is used as given and a missing ambient profile then does
\* not abort; generate and build+install get the same value.
C4_BuildType ==
  /\ gen # None => ValuesOf(gen[1].args, <<"CMAKE_BUILD_TYPE">>) = {C4_Expected}
  /\ bld # None => ConfigOf(bld[1].args) = {C4_Expected}
  /\ log.profile # <<>> => err # Some("PROFILE")
  /\ (log.profile = <<>> /\ var_os(amb.env, <<"PROFILE">>) = None) => gen = None

C4_Witness ==
  /\ bld # None /\ Len(log.profile) = 2 /\ log.profile[1] # log.profile[2]
  /\ var_os(amb.env, <<"PROFILE">>) = None

(* ------------------------------- C7 ------------------------------------ *)
\* C7 as stated: an explicit profile "release" on a non-MSVC target gives the
\* build type "Release" in both steps.
C7_ReleaseCapitalised ==
  (cfg.profile = Some(<<"release">>) /\ ~IsMsvc) =>
    /\ gen # None => ValuesOf(gen[1].args, <<"CMAKE_BUILD_TYPE">>) = {<<"Release">>}
    /\ bld # None => ConfigOf(bld[1].args) = {<<"Release">>}

\* C7 amended: an explicit profile "release" on a non-MSVC target is passed to
\* both steps as given, "release".
C7_ReleaseVerbatim ==
  (cfg.profile = Some(<<"release">>) /\ ~IsMsvc) =>
    /\ gen # None => ValuesOf(gen[1].args, <<"CMAKE_BUILD_TYPE">>) = {<<"release">>}
    /\ bld # None => ConfigOf(bld[1].args) = {<<"release">>}

C7_Witness ==
  /\ cfg.profile = Some(<<"release">>) /\ ~IsMsvc /\ bld # None
  /\ var_os(amb.env, <<"PROFILE">>) = Some(<<"debug">>)

(* ------------------------------- C5 ------------------------------------ *)
\* the -G arguments of the generate command
GeneratorOf(a) == IF Offset(a) = 3 THEN Some(a[3]) ELSE None
NoGenerator(a) == \A i \in 1..Len(a) : a[i] # <<"-G">>

C5_Base ==
  IF Contains(amb.cl, <<"12.0">>) THEN <<"Visual Studio 12 2013">>
  ELSE <<"Visual Studio 14 2015">>

\* the run got as far as choosing the generator and stopped there
C5_FatalWith(msg) ==
  /\ pc = "aborted" /\ gen = None
  /\ (err = Some(msg) \/ err = Some("OUT_DIR") \/ err = Some("join_paths"))

\* what C5 says of every triple but aarch64-pc-windows-msvc
C5_Common ==
  /\ (gen # None /\ IsMingw) =>
       GeneratorOf(gen[1].args) = Some(<<"MSYS Makefiles">>)
  /\ (gen # None /\ IsMsvc /\ ~IsMingw) =>
       /\ VersionKnown
       /\ Contains(TheTarget[1], <<"i686">>) =>
            GeneratorOf(gen[1].args) = Some(C5_Base)
       /\ (Contains(TheTarget[1], <<"x86_64">>) /\ ~Contains(TheTarget[1], <<"i686">>)) =>
            GeneratorOf(gen[1].args) = Some(C5_Base \o <<" Win64">>)
  /\ (Ran /\ IsMsvc /\ ~IsMingw /\ ~VersionKnown) => pc = "aborted" /\ gen = None
  /\ (Ran /\ IsMsvc /\ ~IsMingw /\ ~VersionKnown /\ TheTarget[1] # ArmMsvcTarget) =>
       C5_FatalWith("couldn't determine visual studio generator")
  /\ (gen # None /\ ~IsMsvc /\ ~IsMingw) => NoGenerator(gen[1].args)

\* C5 as stated: ... and aarch64-pc-windows-msvc ends in the fatal error
\* "unsupported msvc target".
C5_ArmAlwaysUnsupported ==
  /\ C5_Common
  /\ (Ran /\ TheTarget = Some(ArmMsvcTarget)) =>
       C5_FatalWith("unsupported msvc target")

\* C5 amended: ... and aarch64-pc-windows-msvc ends in the fatal error
\* "unsupported msvc target" when the version string contains "12.0" or "14.0",
\* and in "couldn't determine visual studio generator" when it contains neither.
C5_Generator ==
  /\ C5_Common
  /\ (Ran /\ TheTarget = Some(ArmMsvcTarget)) =>
       IF VersionKnown THEN C5_FatalWith("unsupported msvc target")
       ELSE C5_FatalWith("couldn't determine visual studio generator")

C5_Witness ==
  /\ Ran /\ TheTarget = Some(ArmMsvcTarget) /\ VersionKnown
  /\ err = Some("unsupported msvc target")

(* ------------------------------- C6 ------------------------------------ *)
Upper(name) ==
  CASE name = "foo" -> "FOO"
    [] name = "bar" -> "BAR"
    [] OTHER -> name

\* the merged list of C6: the value of DEP_<NAME>_ROOT, name uppercased, of
\* each registered dependency that has one, then the entries of CMAKE_PREFIX_PATH
RECURSIVE C6_Roots(_)
C6_Roots(deps) ==
  IF deps = <<>> THEN <<>>
  ELSE (IF DepVar(Upper(Head(deps))) \in DOMAIN amb.env
        THEN <<amb.env[DepVar(Upper(Head(deps)))]>> ELSE <<>>)
       \o C6_Roots(Tail(deps))

C6_List ==
  C6_Roots(cfg.deps)
    \o split_paths(IF <<"CMAKE_PREFIX_PATH">> \in DOMAIN amb.env
                   THEN amb.env[<<"CMAKE_PREFIX_PATH">>] ELSE <<>>)

C8_OtherFailureFatal ==
  /\ mkdir = Some("AlreadyExists") => err # Some("create_dir")
  /\ mkdir = Some("Other") => pc = "aborted" /\ gen = None

\* C8 amended: "already exists" and every other failure to create <dst>/build
\* are both ignored: the build never aborts because of it and goes on to the
\* generate command.
C8_FailureIgnored ==
  /\ mkdir # None => err # Some("create_dir")
  /\ (mkdir # None /\ gen = None) =>
       /\ pc = "aborted"
       /\ err \in {Some("join_paths"), Some("PROFILE"),
                   Some("couldn't determine visual studio generator"),
                   Some("unsupported msvc target")}

C8_Witness == mkdir = Some("Other") /\ gen # None /\ pc = "aborted"

(* ------------------------------- C9 ------------------------------------ *)
C9_AllFlags == log.cflag \o amb.cc.args

\* C9 as stated: the flags of the cflag calls, then the compiler's, one space
\* between adjacent flags and nothing before the first.
C9_NoLeadingSpace ==
  gen # None =>
    ValuesOf(gen[1].args, <<"CMAKE_C_FLAGS">>) = {JoinWith(C9_AllFlags, <<" ">>)}

\* C9 amended: the flags of the cflag calls, then the compiler's, each of
\* them, the first included, preceded by one space.
C9_SpaceBeforeEach ==
  gen # None =>
    ValuesOf(gen[1].args, <<"CMAKE_C_FLAGS">>)
      = {Concat([i \in 1..Len(C9_AllFlags) |-> <<" ">> \o C9_AllFlags[i]])}

C9_Witness ==
  /\ gen # None /\ log.cflag = << <<"-foo">>, <<"-bar">> >>
  /\ Len(amb.cc.args) = 2

(* ------------------------------- C10 ----------------------------------- *)
\* C10: build changes no field of the Config and does not write the process
\* environment; a second run on the same Config issues the same generate and
\* build+install commands as the first, and does not fail because
\* <dst>/build exists.
C10_Idempotent ==
  /\ [][(pc # "idle" \/ pc' # "idle") => (cfg' = cfg /\ amb' = amb)]_vars
  /\ [](prev # None =>
          /\ gen # None /\ gen[1] = prev[1].gen
          /\ bld # None => bld[1] = prev[1].bld
          /\ mkdir = Some("AlreadyExists")
          /\ err # Some("create_dir"))

C10_Witness ==
  /\ prev # None /\ pc = "done" /\ runs = 2
  /\ Len(cfg.defines) > 0 /\ Len(cfg.deps) > 0

====
